---- MODULE Spec2Model ----
(***************************************************************************)
(* Media backup relay: POST /upload forwards one file to a Telegram chat   *)
(* and keeps an in-memory ledger (counters + bounded recent-file history). *)
(*                                                                         *)
(* The repository holds three programs, each a complete server:           *)
(*   "stats"    src/index.js lines 1-353   (stats object, logFile, cap 50) *)
(*   "sendonly" src/index.js lines 355-445 (no ledger at all)              *)
(*   "auth"     src/unnamed/part_000       (ADMIN_SECRET, uploadCount,     *)
(*                                          lastUpload, recentFiles cap 20)*)
(* `variant` says which program a behaviour is a run of.                   *)
(*                                                                         *)
(* A request handler runs synchronously from one `await` to the next       *)
(* (Node.js, one thread): one action = the code between two suspension     *)
(* points, and the settling of the awaited Telegram call is the            *)
(* environment's choice (resolved / rejected).                             *)
(***************************************************************************)
EXTENDS Integers, Sequences, FiniteSets, TLC

VARIABLES
  variant,      \* which of the three programs is running
  envSecret,    \* process.env.ADMIN_SECRET ("undefined" when not set)
  stats,        \* index.js:38 stats {totalUploaded,totalPhotos,totalVideos,totalFailed,totalBytes}
  uploadCount,  \* part_000:32
  lastUpload,   \* part_000:33
  recentFiles,  \* index.js:47 / part_000:34
  clock,        \* the wall clock (new Date()): the latest reading a handler has kept
  pending,      \* the upload handlers suspended at an await
  request,      \* the POST /upload request the last step received, if any: <<>> or <<q>>
  response,     \* the HTTP response the last step wrote (res.json / res.status().json), if any
  attempts,     \* number of requests of this run that issued a delivery call
  outcomes,     \* history variable: the delivery calls settled so far, in order
  update,       \* the bot update or GET /status the last step handled, if any: <<>> or <<u>>
  sent,         \* the message or JSON body the last step sent in reply, if any
  keyboard,     \* the inline buttons under the last message the bot sent or edited
  process       \* process.env as the program reads it, and the exit code once it has exited

vars == <<variant, envSecret, stats, uploadCount, lastUpload, recentFiles,
          clock, pending, request, response, attempts, outcomes,
          update, sent, keyboard, process>>

----------------------------------------------------------------------------
(* Bounds of the model *)

\* requests of a run that get as far as the delivery call (forward attempts);
\* all of them may be in flight at once, and rejected requests are not limited
MaxAttempts == 2

----------------------------------------------------------------------------
(* Program constants *)

\* index.js:48
MAX_RECENT == 50
\* part_000:222  `if (recentFiles.length > 20) recentFiles.shift()`
MAX_RECENT_AUTH == 20
\* part_000:24  `process.env.ADMIN_SECRET || 'zidhu-secret'`
DEFAULT_SECRET == "zidhu-secret"
\* part_000:33  `let lastUpload = null`
Null == -1
\* a field, header or env variable that is not there (JavaScript undefined)
Undefined == "undefined"

\* JavaScript truthiness of a string-or-undefined value, as `||` and `!` use it
Falsy(x) == x = Undefined \/ x = ""

\* the programs that keep counters and a history
KeepsHistory(v) == v \in {"stats", "auth"}

\* a || b
OrElse(a, b) == IF Falsy(a) THEN b ELSE a

Min(a, b) == IF a < b THEN a ELSE b

----------------------------------------------------------------------------
(* Inputs *)

\* values of the multipart field `type` (req.body.type)
Types == {Undefined, "photo", "video", "audio"}
\* buffer.length of the uploaded file, in bytes
Sizes == {1, 2}

\* index.js:293, 390  limits: { fileSize: 50 * 1024 * 1024 }
FILE_SIZE_LIMIT == 50 * 1024 * 1024
\* part_000:39  limits: { fileSize: 100 * 1024 * 1024 }
FILE_SIZE_LIMIT_AUTH == 100 * 1024 * 1024

\* the size in bytes of a file of 120 MB, over the limit of every program
LargeFile == 120 * 1024 * 1024

\* multer stops reading the file part once it is longer than limits.fileSize
TooLarge(size, v) ==
  size > (IF v = "auth" THEN FILE_SIZE_LIMIT_AUTH ELSE FILE_SIZE_LIMIT)

\* values of the x-secret header and of req.body.secret as authCheck reads them
Secrets == {Undefined, DEFAULT_SECRET, "s3cret"}
\* values of process.env.ADMIN_SECRET
EnvSecrets == {Undefined, "s3cret"}

\* What multer and express hand to the handler: req.file (present or not, with
\* buffer.length = size), req.body.type, and the two places a secret can be in.
UploadRequests ==
  [file: {TRUE}, size: Sizes, type: Types, xsecret: Secrets, bsecret: Secrets]
    \cup [file: {FALSE}, size: {0}, type: Types, xsecret: Secrets, bsecret: Secrets]
    \cup [file: {TRUE}, size: {LargeFile}, type: {"photo"},
          xsecret: Secrets, bsecret: {Undefined}]

\* the requests sent to the programs that read no secret
PlainRequests ==
  {q \in UploadRequests : q.xsecret = Undefined /\ q.bsecret = Undefined}

\* The requests sent to the program with authCheck, which reads the secret
\* before multer has parsed anything else: every file/type with the x-secret
\* header `good`, the large file with it, and every pair of secrets with a
\* one-byte photo.
SecretRequests(good) ==
  {q \in UploadRequests :
     \/ q.xsecret = good /\ q.bsecret = Undefined /\ q.size <= 1
     \/ q.xsecret = good /\ q.size = LargeFile
     \/ q.file /\ q.size = 1 /\ q.type = "photo"}

\* A handler invocation: its locals (the file name is the attempt's number),
\* the await it is suspended at, the Telegram calls it has issued so far, the
\* error its catch block holds (err) and the one `catch (_) {}` has swallowed.
\* A request answered before any delivery call has number 0.
Handler(id, type, size, now) ==
  [id |-> id, type |-> type, size |-> size, now |-> now,
   pc |-> "start", err |-> "", swallowed |-> "", calls |-> <<>>]

NoHandler == Handler(0, Undefined, 0, 0)

\* res.status(code).json(body): the body fields the claims speak of
Response(h, status, success, detail) ==
  [h |-> h, status |-> status, success |-> success, detail |-> detail]

NoResponse == Response(NoHandler, 0, FALSE, "")

\* err.message of a rejected delivery call / of a rejected bot.sendMessage
SendError == "ETELEGRAM: delivery failed"
NotifyError == "ETELEGRAM: sendMessage failed"

----------------------------------------------------------------------------
(* Start of the process: index.js:29-34, 376-381; part_000:21-28 *)

\* the value of TELEGRAM_BOT_TOKEN when the dashboard sets it
BotToken == "token"
\* process.env.CHAT_ID (index.js:31, 378; part_000:23) when it is set
CHAT_ID == "chat-1"

\* process.env: each of the two variables unset, set to the empty string, or set
Envs ==
  [TELEGRAM_BOT_TOKEN: {Undefined, "", BotToken}, CHAT_ID: {Undefined, "", CHAT_ID}]

\* the checks looking at the token only
ConfigMissing_TokenOnly(env) == Falsy(env.TELEGRAM_BOT_TOKEN)

\* index.js:33-34, 380-381; part_000:27-28
\*   if (!TELEGRAM_BOT_TOKEN) { ...; process.exit(1); }
\*   if (!CHAT_ID)            { ...; process.exit(1); }
ConfigMissing(env) == Falsy(env.TELEGRAM_BOT_TOKEN) \/ Falsy(env.CHAT_ID)

\* The process once the top-level code of the program has run: exited with
\* code 1 on the first failed check (exit = <<1>>), or past app.listen and
\* the construction of the bot (exit = <<>>).
Startup(env) == [env |-> env, exit |-> IF ConfigMissing(env) THEN <<1>> ELSE <<>>]

\* app.listen and new TelegramBot were reached (index.js:84, 297, 349;
\* part_000:43, 160, 260): only then is there a handler to run, and no
\* handler writes process.env or exits
Serving ==
  /\ process.exit = <<>>
  /\ UNCHANGED process

----------------------------------------------------------------------------
(* The admin panel: Telegram updates and the messages sent in reply *)

\* the chats updates come from
Chats == {CHAT_ID, "chat-2"}

\* callback_data of an inline button: a word and, where the data goes on with
\* `_<number>`, the number: Data("files", <<1>>) is 'files_1', Data("menu", <<>>) is 'menu'
Data(word, page) == [word |-> word, page |-> page]

\* What bot.sendMessage / bot.editMessageText / bot.answerCallbackQuery / res.json
\* is given: the receiving chat, which text it is, the counters the text
\* quotes, the page of the file list in it (<<>> or <<page>>) and the
\* callback_data of the buttons under it.
Message(to, title, counters, list, buttons) ==
  [to |-> to, title |-> title, counters |-> counters, list |-> list,
   buttons |-> buttons]

NoMessage == Message("", "", <<>>, <<>>, {})

\* a step of the upload path: no update is handled and no message is sent
PanelIdle ==
  /\ Serving
  /\ update' = <<>>
  /\ sent' = NoMessage
  /\ UNCHANGED keyboard

----------------------------------------------------------------------------
(* index.js, lines 1-353: the stats-keeping server *)

ZeroStats ==
  [totalUploaded |-> 0, totalPhotos |-> 0, totalVideos |-> 0,
   totalFailed |-> 0, totalBytes |-> 0]

\* logFile with the cap never enforced: the history only grows
logFile_NoPop(rf, name, type, size, status, time) ==
  <<[name |-> name, type |-> type, size |-> size,
     status |-> status, time |-> time]>> \o rf

\* logFile taking the record off the wrong end (shift for pop): over the cap
\* it drops the record it has just put in
logFile_Shift(rf, name, type, size, status, time) ==
  LET rec == [name |-> name, type |-> type, size |-> size,
              status |-> status, time |-> time]
      grown == <<rec>> \o rf
  IN  IF Len(grown) > MAX_RECENT THEN Tail(grown) ELSE grown

\* logFile keeping the history in the order of the file names, which in the
\* model is the order in which the requests arrived, the latest first
logFile_ByArrival(rf, name, type, size, status, time) ==
  LET rec == [name |-> name, type |-> type, size |-> size,
              status |-> status, time |-> time]
      grown == SelectSeq(rf, LAMBDA r : r.name > name) \o <<rec>>
                 \o SelectSeq(rf, LAMBDA r : r.name < name)
  IN  IF Len(grown) > MAX_RECENT THEN SubSeq(grown, 1, Len(grown) - 1) ELSE grown

\* index.js:50-59  logFile: unshift the record, pop the last one when over the cap
logFile(rf, name, type, size, status, time) ==
  LET rec == [name |-> name, type |-> type, size |-> size,
              status |-> status, time |-> time]
      grown == <<rec>> \o rf
  IN  IF Len(grown) > MAX_RECENT THEN SubSeq(grown, 1, Len(grown) - 1) ELSE grown

\* the success path without its per-type counter
StatsSuccess_Untyped(st, type, size) ==
  [st EXCEPT !.totalUploaded = @ + 1, !.totalBytes = @ + size]

\* the success path adding the size in KB, as the log lines print it, where
\* the counter is kept in bytes
StatsSuccess_InKB(st, type, size) ==
  LET typed == IF type = "video"
               THEN [st EXCEPT !.totalVideos = @ + 1]
               ELSE [st EXCEPT !.totalPhotos = @ + 1]
  IN  [typed EXCEPT !.totalUploaded = @ + 1, !.totalBytes = @ + (size \div 1024)]

\* the success path with a per-type counter only for the two known types
\* (`else if (type === 'photo')`)
StatsSuccess_KnownTypes(st, type, size) ==
  LET typed == CASE type = "video" -> [st EXCEPT !.totalVideos = @ + 1]
                 [] type = "photo" -> [st EXCEPT !.totalPhotos = @ + 1]
                 [] OTHER -> st
  IN  [typed EXCEPT !.totalUploaded = @ + 1, !.totalBytes = @ + size]

\* index.js:325-334  the counter writes that follow a resolved delivery call
StatsSuccess(st, type, size) ==
  LET typed == IF type = "video"
               THEN [st EXCEPT !.totalVideos = @ + 1]
               ELSE [st EXCEPT !.totalPhotos = @ + 1]
  IN  [typed EXCEPT !.totalUploaded = @ + 1, !.totalBytes = @ + size]

\* the catch block without its counter write
StatsFailure_Lost(st) == st

\* the catch block counting the failed attempt as an upload too
StatsFailure_AlsoUploaded(st) ==
  [st EXCEPT !.totalFailed = @ + 1, !.totalUploaded = @ + 1]

\* index.js:341  the counter write of the catch block
StatsFailure(st) == [st EXCEPT !.totalFailed = @ + 1]

\* index.js:325-329  the delivery method the type selects
StatsDeliveryCall(type) == IF type = "video" THEN "sendVideo" ELSE "sendPhoto"

----------------------------------------------------------------------------
(* src/unnamed/part_000: the server with the shared secret *)

\* part_000:24  const ADMIN_SECRET = process.env.ADMIN_SECRET || 'zidhu-secret'
ADMIN_SECRET(env) == OrElse(env, DEFAULT_SECRET)

\* part_000:170  const secret = req.headers['x-secret'] || req.body?.secret
PresentedSecret(q) == OrElse(q.xsecret, q.bsecret)

\* authCheck that compares only a secret that was sent
\* (`if (secret && secret !== ADMIN_SECRET)`)
authCheck_AbsentPasses(q, env) ==
  Falsy(PresentedSecret(q)) \/ PresentedSecret(q) = ADMIN_SECRET(env)

\* part_000:169-176  authCheck: TRUE when next() is called, FALSE when it answers 401
authCheck(q, env) == PresentedSecret(q) = ADMIN_SECRET(env)

\* part_000:200  !type || !['photo', 'video'].includes(type)
AuthTypeRejected(type) == Falsy(type) \/ type \notin {"photo", "video"}

\* part_000:210-216  the delivery method the type selects
AuthDeliveryCall(type) == IF type = "photo" THEN "sendPhoto" ELSE "sendVideo"

\* the history trimmed at the wrong end (pop for shift): over the cap it drops
\* the record it has just pushed
pushRecent_Pop(rf, name, type, time) ==
  LET grown == Append(rf, [name |-> name, type |-> type, time |-> time])
  IN  IF Len(grown) > MAX_RECENT_AUTH THEN SubSeq(grown, 1, Len(grown) - 1) ELSE grown

\* part_000:221-222  recentFiles.push(...); if (recentFiles.length > 20) recentFiles.shift()
pushRecent(rf, name, type, time) ==
  LET grown == Append(rf, [name |-> name, type |-> type, time |-> time])
  IN  IF Len(grown) > MAX_RECENT_AUTH THEN Tail(grown) ELSE grown

----------------------------------------------------------------------------
(* Construction, and the uploads before the window the model explores *)

\* The cap of the running program's history
Cap(v) == IF v = "auth" THEN MAX_RECENT_AUTH ELSE MAX_RECENT

\* index.js:38-59, 325-335: stats and recentFiles after k one-byte photos
\* were uploaded and delivered one after the other (k <= MAX_RECENT), numbered
\* 1-k .. 0 and logged at clock readings 1-k .. 0: each record was unshifted,
\* so the newest is first
EarlierStats(k) ==
  [stats |-> [totalUploaded |-> k, totalPhotos |-> k, totalVideos |-> 0,
              totalFailed |-> 0, totalBytes |-> k],
   recentFiles |-> [i \in 1..k |->
                     [name |-> 1 - i, type |-> "photo", size |-> 1,
                      status |-> "ok", time |-> 1 - i]]]

\* part_000:32-34, 218-222: the tracking state after the same k uploads
\* (k <= MAX_RECENT_AUTH): each record was pushed, so the newest is last
EarlierAuth(k) ==
  [uploadCount |-> k,
   lastUpload |-> IF k = 0 THEN Null ELSE 0,
   recentFiles |-> [i \in 1..k |->
                     [name |-> i - k, type |-> "photo", time |-> i - k]]]

\* the settled deliveries of those k uploads, all resolved
EarlierOutcomes(k) == [j \in 1..k |-> [id |-> j - k, ok |-> TRUE]]

\* The state after construction: index.js:37-47, part_000:31-34
Init ==
  /\ variant \in {"stats", "sendonly", "auth"}
  /\ envSecret \in (IF variant = "auth" THEN EnvSecrets ELSE {Undefined})
  /\ stats = ZeroStats
  /\ uploadCount = 0
  /\ lastUpload = Null
  /\ recentFiles = <<>>
  /\ outcomes = <<>>
  /\ clock = 0
  /\ pending = {}
  /\ request = <<>>
  /\ response = NoResponse
  /\ attempts = 0
  /\ update = <<>>
  /\ sent = NoMessage
  /\ keyboard = {}
  /\ process \in {Startup(env) : env \in Envs}

\* Cap - 1 uploads handled one after the other before anything else happens:
\* Cap - 1 runs of the upload handler taken as one step, which brings the
\* history one short of its cap so that the next requests fill it and push
\* records out of it.
EarlierUploads ==
  /\ KeepsHistory(variant)
  /\ attempts = 0 /\ outcomes = <<>> /\ pending = {}
  /\ LET k == Cap(variant) - 1
     IN  /\ stats' = IF variant = "stats" THEN EarlierStats(k).stats ELSE stats
         /\ uploadCount' = IF variant = "auth" THEN EarlierAuth(k).uploadCount ELSE uploadCount
         /\ lastUpload' = IF variant = "auth" THEN EarlierAuth(k).lastUpload ELSE lastUpload
         /\ recentFiles' = IF variant = "auth" THEN EarlierAuth(k).recentFiles
                           ELSE EarlierStats(k).recentFiles
         /\ outcomes' = EarlierOutcomes(k)
  /\ request' = <<>>
  /\ response' = NoResponse
  /\ UNCHANGED <<variant, envSecret, clock, pending, attempts>>
  /\ PanelIdle

\* one more request may get as far as the delivery call
CanAttempt == attempts < MaxAttempts

\* new Date(): the next reading of the clock
Now == clock + 1

----------------------------------------------------------------------------
(* index.js:311-346  app.post('/upload') of the stats-keeping server *)

\* up to the first await: lines 311-329
StatsUpload ==
  \E q \in PlainRequests :
    /\ variant = "stats"
    /\ request' = <<q>>
    /\ LET type == OrElse(q.type, "photo")
       IN  IF TooLarge(q.size, variant) \/ ~q.file
           THEN \* upload.single('file') passes multer's LIMIT_FILE_SIZE error
                \* to next(err); no error-handling middleware is registered,
                \* so express answers 500 and the handler never runs
                /\ response' = Response(NoHandler,
                                        IF TooLarge(q.size, variant) THEN 500 ELSE 400,
                                        FALSE, "")
                /\ UNCHANGED <<pending, attempts>>
           ELSE /\ CanAttempt
                /\ attempts' = attempts + 1
                /\ pending' = pending \cup
                     {[Handler(attempts + 1, type, q.size, 0) EXCEPT
                         !.pc = "awaitSend", !.calls = <<StatsDeliveryCall(type)>>]}
                /\ response' = NoResponse
    /\ UNCHANGED <<variant, envSecret, stats, uploadCount, lastUpload,
                   recentFiles, clock, outcomes>>
    /\ PanelIdle

\* the delivery call resolves: lines 327/330, 333-338
StatsSendResolved ==
  \E h \in pending :
    /\ variant = "stats"
    /\ h \in pending /\ h.pc = "awaitSend"
    /\ stats' = StatsSuccess(stats, h.type, h.size)
    /\ recentFiles' = logFile(recentFiles, h.id, h.type, h.size, "ok", Now)
    /\ clock' = Now
    /\ response' = Response([h EXCEPT !.pc = "done"], 200, TRUE, "")
    /\ pending' = pending \ {h}
    /\ outcomes' = Append(outcomes, [id |-> h.id, ok |-> TRUE])
    /\ request' = <<>>
    /\ UNCHANGED <<variant, envSecret, uploadCount, lastUpload, attempts>>
    /\ PanelIdle

\* a catch block that sends the file once more before it gives up
StatsSendRejected_Retries ==
  \E h \in pending :
    /\ variant = "stats"
    /\ h \in pending /\ h.pc = "awaitSend"
    /\ pending' = (pending \ {h}) \cup
         {[h EXCEPT !.calls = Append(@, StatsDeliveryCall(h.type))]}
    /\ outcomes' = Append(outcomes, [id |-> h.id, ok |-> FALSE])
    /\ response' = NoResponse
    /\ request' = <<>>
    /\ UNCHANGED <<variant, envSecret, stats, uploadCount, lastUpload,
                   recentFiles, clock, attempts>>
    /\ PanelIdle

\* the delivery call rejects: lines 340-345
StatsSendRejected ==
  \E h \in pending :
    /\ variant = "stats"
    /\ h \in pending /\ h.pc = "awaitSend"
    /\ stats' = StatsFailure(stats)
    /\ recentFiles' = logFile(recentFiles, h.id, h.type, h.size, "fail", Now)
    /\ clock' = Now
    /\ response' = Response([h EXCEPT !.pc = "done", !.err = SendError], 500, FALSE, SendError)
    /\ pending' = pending \ {h}
    /\ outcomes' = Append(outcomes, [id |-> h.id, ok |-> FALSE])
    /\ request' = <<>>
    /\ UNCHANGED <<variant, envSecret, uploadCount, lastUpload, attempts>>
    /\ PanelIdle

----------------------------------------------------------------------------
(* index.js:402-438  app.post('/upload') of the send-only server *)

\* up to the first await: lines 402-423
SendOnlyUpload ==
  \E q \in PlainRequests :
    /\ variant = "sendonly"
    /\ request' = <<q>>
    /\ LET type == OrElse(q.type, "photo")
       IN  IF TooLarge(q.size, variant) \/ ~q.file
           THEN \* upload.single('file') passes multer's LIMIT_FILE_SIZE error
                \* to next(err); no error-handling middleware is registered,
                \* so express answers 500 and the handler never runs
                /\ response' = Response(NoHandler,
                                        IF TooLarge(q.size, variant) THEN 500 ELSE 400,
                                        FALSE, "")
                /\ UNCHANGED <<pending, attempts>>
           ELSE /\ CanAttempt
                /\ attempts' = attempts + 1
                /\ pending' = pending \cup
                     {[Handler(attempts + 1, type, q.size, 0) EXCEPT
                         !.pc = "awaitSend", !.calls = <<StatsDeliveryCall(type)>>]}
                /\ response' = NoResponse
    /\ UNCHANGED <<variant, envSecret, stats, uploadCount, lastUpload,
                   recentFiles, clock, outcomes>>
    /\ PanelIdle

\* the delivery call resolves: lines 431-432
SendOnlySendResolved ==
  \E h \in pending :
    /\ variant = "sendonly"
    /\ h \in pending /\ h.pc = "awaitSend"
    /\ response' = Response([h EXCEPT !.pc = "done"], 200, TRUE, "")
    /\ pending' = pending \ {h}
    /\ outcomes' = Append(outcomes, [id |-> h.id, ok |-> TRUE])
    /\ request' = <<>>
    /\ UNCHANGED <<variant, envSecret, stats, uploadCount, lastUpload,
                   recentFiles, clock, attempts>>
    /\ PanelIdle

\* the delivery call rejects: lines 434-437
SendOnlySendRejected ==
  \E h \in pending :
    /\ variant = "sendonly"
    /\ h \in pending /\ h.pc = "awaitSend"
    /\ response' = Response([h EXCEPT !.pc = "done", !.err = SendError], 500, FALSE, SendError)
    /\ pending' = pending \ {h}
    /\ outcomes' = Append(outcomes, [id |-> h.id, ok |-> FALSE])
    /\ request' = <<>>
    /\ UNCHANGED <<variant, envSecret, stats, uploadCount, lastUpload,
                   recentFiles, clock, attempts>>
    /\ PanelIdle

----------------------------------------------------------------------------
(* part_000:190-243  app.post('/upload', authCheck, upload.single('file'), ...) *)

\* authCheck, multer, and the handler up to its first await: lines 169-176, 190-216
AuthUpload ==
  \E q \in SecretRequests(ADMIN_SECRET(envSecret)) :
    /\ variant = "auth"
    /\ request' = <<q>>
    /\ CASE ~authCheck(q, envSecret) ->
              /\ response' = Response(NoHandler, 401, FALSE, "")
              /\ UNCHANGED <<pending, clock, attempts>>
         [] authCheck(q, envSecret) /\ TooLarge(q.size, variant) ->
              \* upload.single('file') passes multer's LIMIT_FILE_SIZE error
              \* to next(err); no error-handling middleware is registered,
              \* so express answers 500 and the handler never runs
              /\ response' = Response(NoHandler, 500, FALSE, "")
              /\ UNCHANGED <<pending, clock, attempts>>
         [] authCheck(q, envSecret) /\ ~q.file ->
              /\ response' = Response(NoHandler, 400, FALSE, "")
              /\ UNCHANGED <<pending, clock, attempts>>
         [] authCheck(q, envSecret) /\ q.file /\ ~TooLarge(q.size, variant)
              /\ AuthTypeRejected(q.type) ->
              \* `now` was read on line 198 and is dropped with the request
              /\ response' = Response(NoHandler, 400, FALSE, "")
              /\ UNCHANGED <<pending, clock, attempts>>
         [] OTHER ->
              /\ CanAttempt
              /\ attempts' = attempts + 1
              /\ clock' = Now
              /\ pending' = pending \cup
                   {[Handler(attempts + 1, q.type, q.size, Now) EXCEPT
                       !.pc = "awaitSend", !.calls = <<AuthDeliveryCall(q.type)>>]}
              /\ response' = NoResponse
    /\ UNCHANGED <<variant, envSecret, stats, uploadCount, lastUpload,
                   recentFiles, outcomes>>
    /\ PanelIdle

\* the tracking state with lastUpload read off the clock when the delivery
\* resolves (`lastUpload = new Date()...`) while the record keeps `now`
AuthSendResolved_StampsLater ==
  \E h \in pending :
    /\ variant = "auth"
    /\ h \in pending /\ h.pc = "awaitSend"
    /\ uploadCount' = uploadCount + 1
    /\ lastUpload' = Now
    /\ clock' = Now
    /\ recentFiles' = pushRecent(recentFiles, h.id, h.type, h.now)
    /\ pending' = (pending \ {h}) \cup
         {[h EXCEPT !.pc = "awaitNotify", !.calls = Append(@, "sendMessage")]}
    /\ outcomes' = Append(outcomes, [id |-> h.id, ok |-> TRUE])
    /\ response' = NoResponse
    /\ request' = <<>>
    /\ UNCHANGED <<variant, envSecret, stats, attempts>>
    /\ PanelIdle

\* sendPhoto/sendVideo resolves: the tracking state and the second await, lines 218-228
AuthSendResolved ==
  \E h \in pending :
    /\ variant = "auth"
    /\ h \in pending /\ h.pc = "awaitSend"
    /\ uploadCount' = uploadCount + 1
    /\ lastUpload' = h.now
    /\ recentFiles' = pushRecent(recentFiles, h.id, h.type, h.now)
    /\ pending' = (pending \ {h}) \cup
         {[h EXCEPT !.pc = "awaitNotify", !.calls = Append(@, "sendMessage")]}
    /\ outcomes' = Append(outcomes, [id |-> h.id, ok |-> TRUE])
    /\ response' = NoResponse
    /\ request' = <<>>
    /\ UNCHANGED <<variant, envSecret, stats, clock, attempts>>
    /\ PanelIdle

\* sendPhoto/sendVideo rejects: the catch block up to its await, lines 233-239
AuthSendRejected ==
  \E h \in pending :
    /\ variant = "auth"
    /\ h \in pending /\ h.pc = "awaitSend"
    /\ pending' = (pending \ {h}) \cup
         {[h EXCEPT !.pc = "awaitFailNotice", !.err = SendError,
                    !.calls = Append(@, "sendMessage")]}
    /\ outcomes' = Append(outcomes, [id |-> h.id, ok |-> FALSE])
    /\ response' = NoResponse
    /\ request' = <<>>
    /\ UNCHANGED <<variant, envSecret, stats, uploadCount, lastUpload,
                   recentFiles, clock, attempts>>
    /\ PanelIdle

\* the "File Backed Up" message resolves: lines 230-231
AuthNotifyResolved ==
  \E h \in pending :
    /\ variant = "auth"
    /\ h \in pending /\ h.pc = "awaitNotify"
    /\ response' = Response([h EXCEPT !.pc = "done"], 200, TRUE, "")
    /\ pending' = pending \ {h}
    /\ request' = <<>>
    /\ UNCHANGED <<variant, envSecret, stats, uploadCount, lastUpload,
                   recentFiles, clock, attempts, outcomes>>
    /\ PanelIdle

\* the "File Backed Up" message rejects: it is inside the try, so the catch
\* block runs up to its await, lines 233-239
AuthNotifyRejected ==
  \E h \in pending :
    /\ variant = "auth"
    /\ h \in pending /\ h.pc = "awaitNotify"
    /\ pending' = (pending \ {h}) \cup
         {[h EXCEPT !.pc = "awaitFailNotice", !.err = NotifyError,
                    !.calls = Append(@, "sendMessage")]}
    /\ response' = NoResponse
    /\ request' = <<>>
    /\ UNCHANGED <<variant, envSecret, stats, uploadCount, lastUpload,
                   recentFiles, clock, attempts, outcomes>>
    /\ PanelIdle

\* the "Upload Failed" message resolves: line 241
AuthFailNoticeResolved ==
  \E h \in pending :
    /\ variant = "auth"
    /\ h \in pending /\ h.pc = "awaitFailNotice"
    /\ response' = Response([h EXCEPT !.pc = "done"], 500, FALSE, h.err)
    /\ pending' = pending \ {h}
    /\ request' = <<>>
    /\ request' = <<>>
    /\ UNCHANGED <<variant, envSecret, stats, uploadCount, lastUpload,
                   recentFiles, clock, attempts, outcomes>>
    /\ PanelIdle

\* the inner try/catch missing: the rejection of the "Upload Failed" message
\* leaves the handler, and express answers with that error instead
AuthFailNoticeRejected_Unwrapped ==
  \E h \in pending :
    /\ variant = "auth"
    /\ h \in pending /\ h.pc = "awaitFailNotice"
    /\ response' = Response([h EXCEPT !.pc = "done", !.err = NotifyError],
                            500, FALSE, NotifyError)
    /\ pending' = pending \ {h}
    /\ request' = <<>>
    /\ UNCHANGED <<variant, envSecret, stats, uploadCount, lastUpload,
                   recentFiles, clock, attempts, outcomes>>
    /\ PanelIdle

\* the "Upload Failed" message rejects: `catch (_) {}` swallows it, lines 240-241
AuthFailNoticeRejected ==
  \E h \in pending :
    /\ variant = "auth"
    /\ h \in pending /\ h.pc = "awaitFailNotice"
    /\ response' = Response([h EXCEPT !.pc = "done", !.swallowed = NotifyError],
                            500, FALSE, h.err)
    /\ pending' = pending \ {h}
    /\ request' = <<>>
    /\ UNCHANGED <<variant, envSecret, stats, uploadCount, lastUpload,
                   recentFiles, clock, attempts, outcomes>>
    /\ PanelIdle

----------------------------------------------------------------------------

(* index.js:86-288  the admin panel of the stats-keeping server *)

\* index.js:158, 175
PAGE_SIZE == 8

Max(a, b) == IF a > b THEN a ELSE b

\* Array.prototype.slice(start, end) on a (0-based, `end` excluded): a
\* negative index counts from the end, and both are cut to 0..length
slice(a, start, end) ==
  LET len == Len(a)
      from == IF start < 0 THEN Max(len + start, 0) ELSE Min(start, len)
      to == IF end < 0 THEN Max(len + end, 0) ELSE Min(end, len)
  IN  SubSeq(a, from + 1, to)

\* index.js:268, 280  recentFiles.filter(f => f.type === type)
filter(files, type) == SelectSeq(files, LAMBDA f : f.type = type)

\* index.js:162, 177  Math.ceil(total / PAGE_SIZE)
PageCount(total) == (total + PAGE_SIZE - 1) \div PAGE_SIZE

\* index.js:256  parseInt(data.split('_')[1]) || 0
parsePage(data) == IF data.page = <<>> THEN 0 ELSE data.page[1]

\* index.js:87-112  the buttons of the main menu
MenuButtons ==
  {Data("status", <<>>), Data("stats", <<>>), Data("photos", <<>>),
   Data("videos", <<>>), Data("files", <<0>>), Data("menu", <<>>)}

sendMainMenu(chatId) == Message(chatId, "menu", <<>>, <<>>, MenuButtons)

\* index.js:115-133  the counters the status text quotes
buildStatusMessage == <<stats.totalUploaded, stats.totalFailed, stats.totalBytes>>

\* index.js:136-151  the counters the statistics text quotes
buildStatsMessage ==
  <<stats.totalUploaded, stats.totalPhotos, stats.totalVideos,
    stats.totalFailed, stats.totalBytes>>

\* buildFileListMessage cutting with a start that does not stop at the end of
\* the list: past the last page it shows the last PAGE_SIZE files again
buildFileListMessage_Wraps(files, page) ==
  IF Len(files) = 0
  THEN [header |-> <<>>, entries |-> <<>>]
  ELSE LET start == Min(page * PAGE_SIZE, Max(Len(files) - PAGE_SIZE, 0))
       IN  [header |-> <<page + 1, PageCount(Len(files)), Len(files)>>,
            entries |-> slice(files, start, start + PAGE_SIZE)]

\* index.js:154-172  buildFileListMessage: the header `Page p+1/pages - total`
\* (none when there are no files) and the files listed under it
buildFileListMessage(files, page) ==
  IF Len(files) = 0
  THEN [header |-> <<>>, entries |-> <<>>]
  ELSE LET start == page * PAGE_SIZE
       IN  [header |-> <<page + 1, PageCount(Len(files)), Len(files)>>,
            entries |-> slice(files, start, start + PAGE_SIZE)]

\* index.js:174-187  buildFileListButtons
buildFileListButtons(files, callbackPrefix, page) ==
  LET pages == PageCount(Len(files))
  IN  {Data(callbackPrefix, <<page - 1>>) : x \in IF page > 0 THEN {1} ELSE {}}
        \cup {Data(callbackPrefix, <<page + 1>>) : x \in IF page < pages - 1 THEN {1} ELSE {}}
        \cup {Data("menu", <<>>)}

\* index.js:204-208, 257-262, 269-274, 281-286  a page of a file list with its buttons
FileList(chatId, files, prefix, page) ==
  Message(chatId, prefix, <<>>, <<buildFileListMessage(files, page)>>,
          buildFileListButtons(files, prefix, page))

\* the buttons of a message as they stand in the chat: each with the number
\* of pages its list had when it was rendered (0 under a text without a list)
Keys(m) ==
  LET pages == IF m.list # <<>> /\ Len(m.list[1].header) = 3
               THEN m.list[1].header[2] ELSE 0
  IN  {[data |-> d, pages |-> pages] : d \in m.buttons}

\* page indices a client may put in callback data: one before the first
\* page, one of the last pages of a full history, and one past them
PressedPages == {-2, 5, 7}

\* callback data a client may send to index.js
StatsCallbackData ==
  MenuButtons \cup {Data(w, <<p>>) : w \in {"files", "photos", "videos"}, p \in PressedPages}

\* A button press: a button that stands under the last message, or data made
\* up by the client (pages = -1)
Presses(made) == keyboard \cup {[data |-> d, pages |-> -1] : d \in made}

\* an update or request as the step's handler gets it
Update(kind, chat, data, pages) ==
  [kind |-> kind, chat |-> chat, data |-> data, pages |-> pages]

NoData == Data("", <<>>)

\* a step of the panel: the upload path is left as it is
UploadIdle ==
  /\ Serving
  /\ request' = <<>>
  /\ response' = NoResponse
  /\ UNCHANGED <<variant, envSecret, stats, uploadCount, lastUpload,
                 clock, pending, attempts, outcomes>>

\* the reply is sent; its buttons, if it has any, are the ones now in the chat
Reply(m) ==
  /\ sent' = m
  /\ keyboard' = IF m.buttons = {} THEN keyboard ELSE Keys(m)

\* index.js:190  bot.onText(/\/start/)
StatsBotStart ==
  \E chat \in Chats :
    /\ variant = "stats"
    /\ update' = <<Update("/start", chat, NoData, -1)>>
    /\ Reply(sendMainMenu(chat))
    /\ UNCHANGED recentFiles
    /\ UploadIdle

\* index.js:191-196  bot.onText(/\/status/)
StatsBotStatus ==
  \E chat \in Chats :
    /\ variant = "stats"
    /\ update' = <<Update("/status", chat, NoData, -1)>>
    /\ Reply(Message(chat, "status", buildStatusMessage, <<>>, {Data("menu", <<>>)}))
    /\ UNCHANGED recentFiles
    /\ UploadIdle

\* index.js:197-202  bot.onText(/\/stats/)
StatsBotStats ==
  \E chat \in Chats :
    /\ variant = "stats"
    /\ update' = <<Update("/stats", chat, NoData, -1)>>
    /\ Reply(Message(chat, "stats", buildStatsMessage, <<>>, {Data("menu", <<>>)}))
    /\ UNCHANGED recentFiles
    /\ UploadIdle

\* index.js:203-209  bot.onText(/\/files/)
StatsBotFiles ==
  \E chat \in Chats :
    /\ variant = "stats"
    /\ update' = <<Update("/files", chat, NoData, -1)>>
    /\ Reply(FileList(chat, recentFiles, "files", 0))
    /\ UNCHANGED recentFiles
    /\ UploadIdle

\* index.js:220-287  the branches of the callback_query handler
StatsCallbackReply(chatId, data) ==
  CASE data = Data("menu", <<>>) -> sendMainMenu(chatId)
    [] data = Data("status", <<>>) ->
         Message(chatId, "status", buildStatusMessage, <<>>,
                 {Data("status", <<>>), Data("menu", <<>>)})
    [] data = Data("stats", <<>>) ->
         Message(chatId, "stats", buildStatsMessage, <<>>,
                 {Data("stats", <<>>), Data("menu", <<>>)})
    [] data.word = "files" /\ data.page # <<>> ->
         FileList(chatId, recentFiles, "files", parsePage(data))
    [] data.word = "photos" ->
         FileList(chatId, filter(recentFiles, "photo"), "photos", parsePage(data))
    [] data.word = "videos" ->
         FileList(chatId, filter(recentFiles, "video"), "videos", parsePage(data))
    [] OTHER -> NoMessage

\* index.js:212-288  bot.on('callback_query'), from the point where
\* answerCallbackQuery has resolved: no array it reads is written to
StatsBotCallback ==
  \E chat \in Chats, b \in Presses(StatsCallbackData) :
    /\ variant = "stats"
    /\ update' = <<Update("callback_query", chat, b.data, b.pages)>>
    /\ Reply(StatsCallbackReply(chat, b.data))
    /\ UNCHANGED recentFiles
    /\ UploadIdle

----------------------------------------------------------------------------
(* part_000:45-157  the admin panel of the server with the shared secret *)

\* part_000:46-58  adminKeyboard
adminKeyboard ==
  {Data("start_service", <<>>), Data("get_folder", <<>>), Data("ping", <<>>)}

\* callback data a client may send to this server: its buttons and a stray one
AuthCallbackData == adminKeyboard \cup {Data("menu", <<>>)}

\* Array.prototype.reverse()
reverse(a) == [i \in 1..Len(a) |-> a[Len(a) + 1 - i]]

\* recentFiles after `recentFiles.reverse()`, which reverses the array in place
AfterGetFolder_InPlace(rf) == reverse(rf)

\* part_000:126  recentFiles after `recentFiles.slice(-10).reverse()`: slice
\* copies, and it is the copy that is reversed
AfterGetFolder(rf) == rf

\* part_000:122-130  the text of get_folder: the last ten files, newest first,
\* and uploadCount as the total
getFolder(rf, count) ==
  IF Len(rf) = 0
  THEN [header |-> <<>>, entries |-> <<>>]
  ELSE [header |-> <<count>>, entries |-> reverse(slice(rf, -10, Len(rf)))]

\* part_000:79-87  bot.onText(/\/start/)
AuthBotStart ==
  \E chat \in Chats :
    /\ variant = "auth"
    /\ update' = <<Update("/start", chat, NoData, -1)>>
    /\ Reply(IF chat # CHAT_ID
             THEN Message(chat, "unauthorized", <<>>, <<>>, {})
             ELSE Message(chat, "welcome", <<>>, <<>>, adminKeyboard))
    /\ UNCHANGED recentFiles
    /\ UploadIdle

\* part_000:90-97  bot.onText(/\/status/)
AuthBotStatus ==
  \E chat \in Chats :
    /\ variant = "auth"
    /\ update' = <<Update("/status", chat, NoData, -1)>>
    /\ Reply(IF chat # CHAT_ID
             THEN NoMessage
             ELSE Message(chat, "status", <<uploadCount, lastUpload>>, <<>>,
                          adminKeyboard))
    /\ UNCHANGED recentFiles
    /\ UploadIdle

\* part_000:107-156  the cases of the callback_query handler; `online` is
\* the outcome of the GET that ping awaits
AuthCallbackReply(chatId, data, online) ==
  CASE data = Data("start_service", <<>>) ->
         Message(chatId, "service", <<uploadCount, lastUpload>>, <<>>, adminKeyboard)
    [] data = Data("get_folder", <<>>) ->
         Message(chatId, "folder", <<>>, <<getFolder(recentFiles, uploadCount)>>,
                 adminKeyboard)
    [] data = Data("ping", <<>>) ->
         Message(chatId, IF online THEN "online" ELSE "unreachable", <<>>, <<>>,
                 adminKeyboard)
    [] OTHER -> NoMessage

\* part_000:100-157  bot.on('callback_query'): the check of the chat, and the
\* cases from the point where answerCallbackQuery has resolved
AuthBotCallback ==
  \E chat \in Chats, b \in Presses(AuthCallbackData), online \in BOOLEAN :
    /\ variant = "auth"
    /\ update' = <<Update("callback_query", chat, b.data, b.pages)>>
    /\ IF chat # CHAT_ID
       THEN /\ Reply(Message(chat, "unauthorized", <<>>, <<>>, {}))
            /\ UNCHANGED recentFiles
       ELSE /\ Reply(AuthCallbackReply(chat, b.data, online))
            /\ recentFiles' = IF b.data = Data("get_folder", <<>>)
                              THEN AfterGetFolder(recentFiles) ELSE recentFiles
    /\ UploadIdle

----------------------------------------------------------------------------
(* index.js:300-308, 397-399; part_000:179-187  app.get('/status') *)

GetStatus ==
  /\ update' = <<Update("GET /status", "http", NoData, -1)>>
  /\ Reply(Message("http", "status",
                   CASE variant = "stats" -> <<stats.totalUploaded, stats.totalFailed>>
                     [] variant = "auth" -> <<uploadCount, lastUpload>>
                     [] OTHER -> <<>>,
                   <<>>, {}))
  /\ UNCHANGED recentFiles
  /\ UploadIdle

----------------------------------------------------------------------------

Next ==
  \/ EarlierUploads
  \/ StatsUpload
  \/ StatsSendResolved
  \/ StatsSendRejected
  \/ SendOnlyUpload
  \/ SendOnlySendResolved
  \/ SendOnlySendRejected
  \/ AuthUpload
  \/ AuthSendResolved
  \/ AuthSendRejected
  \/ AuthNotifyResolved
  \/ AuthNotifyRejected
  \/ AuthFailNoticeResolved
  \/ AuthFailNoticeRejected

Spec == Init /\ [][Next]_vars

----------------------------------------------------------------------------
(* The upload path when every Telegram call is answered *)

\* the Telegram call that the handler of attempt `id` awaits resolves or rejects
SettleOf(id) ==
  /\ \/ StatsSendResolved \/ StatsSendRejected
     \/ SendOnlySendResolved \/ SendOnlySendRejected
     \/ AuthSendResolved \/ AuthSendRejected
     \/ AuthNotifyResolved \/ AuthNotifyRejected
     \/ AuthFailNoticeResolved \/ AuthFailNoticeRejected
  /\ \E h \in pending : h.id = id /\ h \notin pending'

\* no awaited call stays unanswered for ever, and the event loop then runs
\* the continuation of its handler
FairSpec == Spec /\ \A id \in 1..MaxAttempts : WF_vars(SettleOf(id))

----------------------------------------------------------------------------
(* The servers with their admin panel and GET /status *)

\* the uploads sent while the panel is in use: one-byte photos and videos,
\* one at a time, with the secret in the header where there is one
PanelUpload ==
  request' # <<>> =>
    /\ pending = {}
    /\ request'[1].file /\ request'[1].size = 1
    /\ request'[1].type \in {"photo", "video"}
    /\ request'[1].bsecret = Undefined
    /\ request'[1].xsecret =
         (IF variant = "auth" THEN ADMIN_SECRET(envSecret) ELSE Undefined)

PanelInit == Init /\ envSecret = Undefined

PanelNext ==
  \/ EarlierUploads
  \/ StatsUpload /\ PanelUpload
  \/ StatsSendResolved
  \/ StatsSendRejected
  \/ SendOnlyUpload /\ PanelUpload
  \/ SendOnlySendResolved
  \/ SendOnlySendRejected
  \/ AuthUpload /\ PanelUpload
  \/ AuthSendResolved
  \/ AuthSendRejected
  \/ AuthNotifyResolved
  \/ AuthNotifyRejected
  \/ AuthFailNoticeResolved
  \/ AuthFailNoticeRejected
  \/ StatsBotStart
  \/ StatsBotStatus
  \/ StatsBotStats
  \/ StatsBotFiles
  \/ StatsBotCallback
  \/ AuthBotStart
  \/ AuthBotStatus
  \/ AuthBotCallback
  \/ GetStatus

PanelSpec == PanelInit /\ [][PanelNext]_vars

----------------------------------------------------------------------------
(* Vocabulary of the properties *)

\* counters and history: everything the spec calls the ledger
Ledger == <<stats, uploadCount, lastUpload, recentFiles>>

Range(f) == {f[i] : i \in DOMAIN f}

\* the deliveries settled so far; those resolved; those rejected
Settled == Len(outcomes)
Resolved == {i \in DOMAIN outcomes : outcomes[i].ok}
Rejected == {i \in DOMAIN outcomes : ~outcomes[i].ok}

\* position of attempt `id` in the order in which deliveries settled (0: not yet)
SettledAt(id) ==
  IF \E i \in DOMAIN outcomes : outcomes[i].id = id
  THEN CHOOSE i \in DOMAIN outcomes : outcomes[i].id = id
  ELSE 0

\* a step in which a delivery call settles, and the attempt it belongs to
\* (EarlierUploads, which stands for Cap - 1 whole uploads, settles many)
Settles == Len(outcomes') = Len(outcomes) + 1
SettlesSome == Len(outcomes') > Len(outcomes)
JustSettled == outcomes'[Len(outcomes')]

\* the success counter of the running program
SuccessCounter == IF variant = "auth" THEN uploadCount ELSE stats.totalUploaded

\* attempts the ledger has recorded
Recorded ==
  IF variant = "auth" THEN uploadCount ELSE stats.totalUploaded + stats.totalFailed

AwaitingDelivery == {h \in pending : h.pc = "awaitSend"}

\* the file names of the history, as stored
HistoryNames == [i \in DOMAIN recentFiles |-> recentFiles[i].name]

\* the last n attempts to settle, the most recently settled first / last
NewestFirst(n) == [i \in 1..n |-> outcomes[Settled - i + 1].id]
NewestLast(n) == [i \in 1..n |-> outcomes[Settled - n + i].id]

----------------------------------------------------------------------------
(* C1 *)

\* C1 as stated: when every delivery so far has resolved and none is still
\* awaited, the success counter equals the number N of uploads and the
\* history holds the last min(N, cap) of them, most recently completed first.
C1_AsStated ==
  (KeepsHistory(variant) /\ Rejected = {} /\ AwaitingDelivery = {}) =>
    /\ SuccessCounter = Settled
    /\ Len(recentFiles) = Min(Settled, Cap(variant))
    /\ HistoryNames = NewestFirst(Len(recentFiles))

\* C1 amended: the counter equals N and the history holds the last
\* min(N, cap) uploads in completion order, most recently completed first in
\* index.js (unshift) and most recently completed last in the auth variant (push).
C1_CounterAndHistory ==
  (KeepsHistory(variant) /\ Rejected = {} /\ AwaitingDelivery = {}) =>
    /\ SuccessCounter = Settled
    /\ Len(recentFiles) = Min(Settled, Cap(variant))
    /\ HistoryNames = IF variant = "auth"
                      THEN NewestLast(Len(recentFiles))
                      ELSE NewestFirst(Len(recentFiles))

\* two uploads of this run, both delivered, the second to arrive completing
\* first, on top of a history that was one short of its cap
C1_Witness ==
  /\ variant = "auth"
  /\ Rejected = {} /\ AwaitingDelivery = {}
  /\ Settled = MAX_RECENT_AUTH + 1
  /\ outcomes[Settled].id = 1 /\ outcomes[Settled - 1].id = 2


----------------------------------------------------------------------------
(* C2 *)

\* C2: in the stats-keeping server totalUploaded + totalFailed equals the
\* number of forward attempts whose delivery call has settled.
C2_CountersCountSettled ==
  variant = "stats" => stats.totalUploaded + stats.totalFailed = Settled

\* a resolved and a rejected delivery of this run, both counted
C2_Witness ==
  /\ variant = "stats"
  /\ \E i \in Resolved : outcomes[i].id >= 1
  /\ Rejected # {}
  /\ stats.totalFailed = 1

----------------------------------------------------------------------------
(* C3 *)

\* the attempts whose records a step drops from the history, and those whose
\* records it adds (a record is known by its file name, the attempt's number)
Names(rf) == {rf[i].name : i \in DOMAIN rf}
Evicted == Names(recentFiles) \ Names(recentFiles')
Inserted == Names(recentFiles') \ Names(recentFiles)

\* a step that records an attempt while the history is full puts exactly one
\* record in and drops exactly one, and no record that was there had been
\* inserted before the dropped one
EvictsOldest ==
  (Len(recentFiles) = Cap(variant) /\ Recorded' # Recorded) =>
    /\ Cardinality(Evicted) = 1
    /\ Cardinality(Inserted) = 1
    /\ \A gone \in Evicted :
         LET at == SettledAt(gone)
         IN  \A kept \in Names(recentFiles) : at <= SettledAt(kept)

\* C3: no step leaves the history (empty at the start) longer than its cap
\* (50 in index.js, 20 in the auth variant), and an insertion into a full
\* history evicts the record that was inserted earliest.
C3_CapAndEviction ==
  [][KeepsHistory(variant) =>
       /\ Len(recentFiles') <= Cap(variant)
       /\ EvictsOldest]_vars

\* the history of index.js is full and has already lost its oldest record
C3_Witness ==
  /\ variant = "stats"
  /\ Len(recentFiles) = MAX_RECENT
  /\ Settled = MAX_RECENT + 1
  /\ 2 - MAX_RECENT \notin Names(recentFiles)

----------------------------------------------------------------------------
(* C4 *)

\* the history before a step, with room made for one more record
Room(rf) == SubSeq(rf, 1, Min(Len(rf), MAX_RECENT - 1))

\* index.js: the step records the settled attempt once, as ok or as fail
StatsRecordsOnce ==
  LET a == JustSettled
  IN  /\ Len(recentFiles') >= 1
      /\ Tail(recentFiles') = Room(recentFiles)
      /\ recentFiles'[1].name = a.id
      /\ recentFiles'[1].status = IF a.ok THEN "ok" ELSE "fail"
      /\ stats'.totalUploaded = stats.totalUploaded + (IF a.ok THEN 1 ELSE 0)
      /\ stats'.totalFailed = stats.totalFailed + (IF a.ok THEN 0 ELSE 1)

\* the auth variant: the step records the settled attempt once
AuthRecordsOnce ==
  LET a == JustSettled
      keep == IF Len(recentFiles) = MAX_RECENT_AUTH THEN Tail(recentFiles)
              ELSE recentFiles
  IN  /\ Len(recentFiles') >= 1
      /\ SubSeq(recentFiles', 1, Len(recentFiles') - 1) = keep
      /\ recentFiles'[Len(recentFiles')].name = a.id
      /\ uploadCount' = uploadCount + 1

\* no attempt settles twice
SettlesOnce ==
  \A i, j \in DOMAIN outcomes : outcomes[i].id = outcomes[j].id => i = j

\* C4 as stated: the ledger changes only in the step in which a delivery call
\* settles, and that step, for a resolved and for a rejected delivery alike,
\* adds one record and moves one outcome counter by one.
C4_AsStated ==
  /\ [](SettlesOnce)
  /\ [][KeepsHistory(variant) =>
          /\ Ledger' # Ledger => SettlesSome
          /\ Settles =>
               IF variant = "stats" THEN StatsRecordsOnce ELSE AuthRecordsOnce]_vars

\* What the two programs do: in index.js every attempt, resolved or rejected,
\* adds one record and moves one of totalUploaded/totalFailed by one; in the
\* auth variant a resolved delivery adds one record and one to uploadCount,
\* and a rejected delivery leaves the ledger as it was.
LedgerStepsAsCoded ==
  /\ [](SettlesOnce)
  /\ [][KeepsHistory(variant) =>
          /\ Ledger' # Ledger => SettlesSome
          /\ Settles =>
               CASE variant = "stats" -> StatsRecordsOnce
                 [] variant = "auth" /\ JustSettled.ok -> AuthRecordsOnce
                 [] OTHER -> Ledger' = Ledger]_vars

----------------------------------------------------------------------------
(* C5 *)

\* C5: no state shows part of an attempt's ledger update: the history length
\* is min(recorded attempts, cap) and the per-type counters add up to
\* totalUploaded, also while other uploads are in flight.
C5_UpdateIsOneStep ==
  KeepsHistory(variant) =>
    /\ Len(recentFiles) = Min(Recorded, Cap(variant))
    /\ variant = "stats" => stats.totalUploaded = stats.totalPhotos + stats.totalVideos

\* a video has been recorded while another upload is still being delivered
C5_Witness ==
  /\ variant = "stats"
  /\ AwaitingDelivery # {}
  /\ stats.totalVideos = 1
  /\ Len(recentFiles) = MAX_RECENT


----------------------------------------------------------------------------
(* C6, C7 *)

\* a step that receives a POST /upload request, and the request
Receives == request' # <<>>
Received == request'[1]

\* the request the step has received got past authCheck, where there is one
PassedAuth(q) == variant = "auth" => authCheck(q, envSecret)

\* the step answered 400, issued no Telegram call and left the ledger alone
RejectedUntouched ==
  /\ response'.status = 400
  /\ pending' = pending
  /\ Ledger' = Ledger

\* C6 as stated: a request that carries a file and a `type` value other than
\* photo and video is answered 400, issues no sendPhoto/sendVideo and changes
\* neither counters nor history.
C6_AsStated ==
  [][(Receives /\ PassedAuth(Received) /\ Received.file
        /\ Received.type # Undefined /\ Received.type \notin {"photo", "video"})
       => RejectedUntouched]_vars

\* C7 as stated: a request without the file part or without the `type` field
\* is answered 400, attempts no delivery and leaves the ledger unchanged.
C7_AsStated ==
  [][(Receives /\ PassedAuth(Received)
        /\ (~Received.file \/ Received.type = Undefined))
       => RejectedUntouched]_vars

----------------------------------------------------------------------------
(* C8 *)

\* the request carries the configured secret, in the header or in the body
Presents(q, secret) == q.xsecret = secret \/ q.bsecret = secret

\* C8: in the auth variant a request that does not carry the configured
\* ADMIN_SECRET is answered 401, issues no Telegram call and leaves
\* uploadCount, lastUpload and recentFiles unchanged; only a request that
\* carried the secret is validated or delivered.
C8_SecretGuardsUpload ==
  [][(variant = "auth" /\ Receives) =>
       /\ ~Presents(Received, ADMIN_SECRET(envSecret)) =>
            /\ response'.status = 401
            /\ pending' = pending
            /\ Ledger' = Ledger
       /\ (response'.status # 401 \/ pending' # pending) =>
            Presents(Received, ADMIN_SECRET(envSecret))]_vars

\* the default secret was sent to a server configured with another one,
\* after an upload had been recorded
C8_Witness ==
  /\ variant = "auth"
  /\ envSecret = "s3cret"
  /\ request = <<[file |-> TRUE, size |-> 1, type |-> "photo",
                  xsecret |-> DEFAULT_SECRET, bsecret |-> Undefined]>>
  /\ response.status = 401
  /\ uploadCount = 1

----------------------------------------------------------------------------
(* C9 *)

\* C9: in index.js a rejected delivery call is answered 500 with the error's
\* message, adds one to totalFailed, and leaves totalUploaded, totalPhotos,
\* totalVideos and totalBytes as they were.
C9_FailureCountedOnly ==
  [][(variant = "stats" /\ Settles /\ ~JustSettled.ok) =>
       /\ response'.status = 500
       /\ response'.detail = SendError
       /\ response'.h.id = JustSettled.id
       /\ stats'.totalFailed = stats.totalFailed + 1
       /\ stats'.totalUploaded = stats.totalUploaded
       /\ stats'.totalPhotos = stats.totalPhotos
       /\ stats'.totalVideos = stats.totalVideos
       /\ stats'.totalBytes = stats.totalBytes]_vars

\* a video of two bytes was not delivered, after a photo was
C9_Witness ==
  /\ variant = "stats"
  /\ response.status = 500
  /\ response.h.type = "video" /\ response.h.size = 2
  /\ stats = [totalUploaded |-> 1, totalPhotos |-> 1, totalVideos |-> 0,
              totalFailed |-> 1, totalBytes |-> 1]

----------------------------------------------------------------------------
(* C10 *)

\* C10 as stated: the response to an attempt whose delivery call resolved is
\* 200 with success: true, and a 500 response means the delivery call itself
\* was rejected.
C10_AsStated ==
  (response.status # 0 /\ response.h.id # 0) =>
    LET i == SettledAt(response.h.id)
    IN  /\ i # 0
        /\ outcomes[i].ok => response.status = 200 /\ response.success
        /\ response.status = 500 => ~outcomes[i].ok

----------------------------------------------------------------------------
(* C11 *)

\* the handler that a step takes out of `pending` to answer its request
Answers(h) == h \in pending /\ response'.status # 0 /\ response'.h.id = h.id

\* C11: in the auth variant, when the delivery call was rejected and the
\* "Upload Failed" notice is rejected as well, the request is still answered,
\* with 500 and the message of the delivery error; the notice's own error is
\* swallowed and is in no part of the response.
C11_NoticeFailureKeepsError ==
  [][\A h \in pending :
       (variant = "auth" /\ h.pc = "awaitFailNotice" /\ h \notin pending') =>
         /\ Answers(h)
         /\ response'.status = 500
         /\ response'.detail = h.err
         /\ ~outcomes[SettledAt(h.id)].ok => response'.detail = SendError]_vars

\* the delivery was rejected, then the notice was, and the answer is the
\* 500 with the delivery error
C11_Witness ==
  /\ variant = "auth"
  /\ response.status = 500
  /\ response.h.swallowed = NotifyError
  /\ response.detail = SendError
  /\ ~outcomes[SettledAt(response.h.id)].ok

----------------------------------------------------------------------------
(* Vocabulary of the panel's properties *)

\* the state was reached by handling an update or a GET /status, and which
Handled == update # <<>>
TheUpdate == update[1]

\* the update was a read of a file list of index.js: the /files command or a
\* files_/photos/videos button
ReadsList ==
  /\ variant = "stats" /\ Handled
  /\ \/ TheUpdate.kind = "/files"
     \/ /\ TheUpdate.kind = "callback_query"
        /\ TheUpdate.data.word \in {"files", "photos", "videos"}
        /\ TheUpdate.data.word = "files" => TheUpdate.data.page # <<>>

\* the page index it asked for, and the (filtered) history it asked it of
AskedPage == IF TheUpdate.data.page = <<>> THEN 0 ELSE TheUpdate.data.page[1]
AskedFiles ==
  CASE TheUpdate.data.word = "photos" ->
         SelectSeq(recentFiles, LAMBDA f : f.type = "photo")
    [] TheUpdate.data.word = "videos" ->
         SelectSeq(recentFiles, LAMBDA f : f.type = "video")
    [] OTHER -> recentFiles
AskedPages == (Len(AskedFiles) + PAGE_SIZE - 1) \div PAGE_SIZE

\* the page of the list in the reply
SentPage == sent.list[1]

----------------------------------------------------------------------------
(* C12 *)

\* C12: a read of a file list of index.js with a page index p >= the number
\* of pages of the (filtered) history is answered with a message to the
\* asking chat whose page lists no file, whatever the history holds; also
\* when p was on a button rendered while the list still had more pages.
C12_PastTheEndIsEmpty ==
  (ReadsList /\ AskedPage >= AskedPages) =>
    /\ sent.to = TheUpdate.chat
    /\ sent.list # <<>>
    /\ SentPage.entries = <<>>

\* `photos_6` stood under a page rendered when there were 7 pages of photos;
\* two videos later there are 6, the button is pressed, and the page is empty
C12_Witness ==
  /\ ReadsList
  /\ TheUpdate.data = Data("photos", <<6>>)
  /\ TheUpdate.pages = 7
  /\ AskedPages = 6
  /\ SentPage = [header |-> <<7, 6, 48>>, entries |-> <<>>]

----------------------------------------------------------------------------
(* C13 *)

\* the valid page index nearest to p, for a list of `pages` pages
Clamp(p, pages) == Max(0, Min(p, pages - 1))

\* the files are listed from the one recorded last to the one recorded first
MostRecentFirst(entries) ==
  \A i, j \in DOMAIN entries :
    i < j => SettledAt(entries[i].name) > SettledAt(entries[j].name)

\* C13 as stated: a file-list read of index.js shows and uses the page index
\* of the callback data clamped to 0 .. pages-1, the shown page holding the
\* files of that page of the (filtered) history; and every page, get_folder's
\* list of the auth variant too, lists its files most recent first.
C13_AsStated ==
  /\ (ReadsList /\ AskedPages > 0) =>
       LET p == Clamp(AskedPage, AskedPages)
       IN  /\ SentPage.header[1] = p + 1
           /\ SentPage.entries =
                SubSeq(AskedFiles, p * PAGE_SIZE + 1,
                       Min((p + 1) * PAGE_SIZE, Len(AskedFiles)))
           /\ MostRecentFirst(SentPage.entries)
  /\ (variant = "auth" /\ Handled /\ sent.list # <<>>) =>
       MostRecentFirst(SentPage.entries)

\* what the two programs do: the index is used as it comes, and whatever
\* page it cuts is listed most recent first
PagesAsCoded ==
  /\ (ReadsList /\ AskedPages > 0) =>
       /\ SentPage.header[1] = AskedPage + 1
       /\ MostRecentFirst(SentPage.entries)
  /\ (variant = "auth" /\ Handled /\ sent.list # <<>>) =>
       MostRecentFirst(SentPage.entries)

----------------------------------------------------------------------------
(* C14 *)

\* a step that handles a bot command, a button press or a GET /status
Reads == update' # <<>>

\* C14: a step that handles GET /status, a bot command or a callback query
\* leaves the counters, lastUpload and the history (contents and order) as
\* they were, and with them the uploads in flight and what has been settled.
C14_ReadsLeaveLedger ==
  [][Reads => /\ Ledger' = Ledger
              /\ pending' = pending
              /\ outcomes' = outcomes]_vars

\* get_folder was answered from a full history of the auth variant while an
\* upload was waiting for its delivery call
C14_Witness ==
  /\ variant = "auth"
  /\ Handled
  /\ TheUpdate.data = Data("get_folder", <<>>)
  /\ TheUpdate.chat = CHAT_ID
  /\ Len(SentPage.entries) = 10
  /\ Len(recentFiles) = MAX_RECENT_AUTH
  /\ AwaitingDelivery # {}

----------------------------------------------------------------------------
(* C15 *)

\* the update is a bot command or a button press (not GET /status)
FromTelegram == Handled /\ TheUpdate.kind # "GET /status"

\* the reply quotes counters, the last-upload time or files of the history
ShowsLedger == sent.counters # <<>> \/ sent.list # <<>>

\* C15 as stated: a command or button press from a chat other than CHAT_ID
\* is answered with nothing that quotes the ledger, and no message that
\* quotes it goes to any chat but CHAT_ID.
C15_AsStated ==
  FromTelegram =>
    /\ TheUpdate.chat # CHAT_ID => ~ShowsLedger
    /\ ShowsLedger => sent.to = CHAT_ID

\* what part_000 does: only CHAT_ID is answered with ledger data
AuthPanelIsPrivate ==
  (variant = "auth" /\ FromTelegram) =>
    /\ TheUpdate.chat # CHAT_ID => ~ShowsLedger /\ sent.buttons = {}
    /\ ShowsLedger => sent.to = CHAT_ID

----------------------------------------------------------------------------
(* C16 *)

\* C16 as stated: a request whose file is larger than the program's
\* limits.fileSize issues no sendPhoto/sendVideo, leaves the ledger
\* unchanged, and is answered with a status of the 400/413 class.
C16_AsStated ==
  [][(Receives /\ PassedAuth(Received) /\ TooLarge(Received.size, variant)) =>
       /\ pending' = pending
       /\ Ledger' = Ledger
       /\ response'.status \in {400, 413}]_vars

\* what the programs do with such a request: nothing is delivered or
\* recorded, and the answer is express's 500
OversizeAsCoded ==
  [][(Receives /\ PassedAuth(Received) /\ TooLarge(Received.size, variant)) =>
       /\ pending' = pending
       /\ Ledger' = Ledger
       /\ attempts' = attempts
       /\ response'.status = 500]_vars

----------------------------------------------------------------------------
(* C17 *)

\* the handlers that have issued a Telegram call: those suspended at an
\* await, and the one just answered
Handlers == pending \cup (IF response.h.id # 0 THEN {response.h} ELSE {})

DeliveryCalls == {"sendPhoto", "sendVideo"}

\* the delivery calls among the Telegram calls a handler has issued
Deliveries(h) == SelectSeq(h.calls, LAMBDA c : c \in DeliveryCalls)

\* C17: a request that got past validation has issued exactly one delivery
\* call, its first Telegram call, sendPhoto for type photo and sendVideo for
\* type video; whatever the call's outcome no second one is issued for it,
\* and a handler is suspended at the delivery call only once.
C17_OneDeliveryCall ==
  \A h \in Handlers :
    /\ Len(Deliveries(h)) = 1
    /\ h.calls[1] \in DeliveryCalls
    /\ h.type = "photo" => h.calls[1] = "sendPhoto"
    /\ h.type = "video" => h.calls[1] = "sendVideo"
    /\ SettledAt(h.id) # 0 => h.pc # "awaitSend"

\* a video was sent with sendVideo, the call was rejected, and the request
\* was answered 500 without another delivery call
C17_Witness ==
  /\ response.status = 500
  /\ response.h.type = "video"
  /\ response.h.calls[1] = "sendVideo"
  /\ Len(Deliveries(response.h)) = 1
  /\ ~outcomes[SettledAt(response.h.id)].ok

----------------------------------------------------------------------------
(* C18 *)

\* attempt `id` has issued its delivery call; its handler is suspended at an
\* await; its handler has run to its end; the ledger holds its record
Issued(id) == attempts >= id
Suspended(id) == \E h \in pending : h.id = id
Finished(id) == Issued(id) /\ ~Suspended(id)
InLedger(id) == id \in Names(recentFiles)

\* a handler ends only by answering its request, and a step answers only a
\* request whose handler was suspended: each request is answered once
AnswersOnce ==
  [][\A id \in 1..MaxAttempts :
       /\ (Suspended(id) /\ ~Suspended(id)') =>
            response'.status # 0 /\ response'.h.id = id
       /\ (response'.status # 0 /\ response'.h.id = id) =>
            Suspended(id) /\ ~Suspended(id)']_vars

\* C18 as stated: when every Telegram call is eventually answered, every
\* request that has issued its delivery call is eventually answered, and
\* exactly once; and where there is a ledger, its outcome, success or
\* failure, is eventually recorded there.
C18_AsStated ==
  /\ \A id \in 1..MaxAttempts : Issued(id) ~> Finished(id)
  /\ \A id \in 1..MaxAttempts :
       (KeepsHistory(variant) /\ Issued(id)) ~> InLedger(id)
  /\ AnswersOnce

\* what the programs do: every such request is answered once; index.js
\* records every outcome, the auth variant only the deliveries that resolved
LivenessAsCoded ==
  /\ \A id \in 1..MaxAttempts : Issued(id) ~> Finished(id)
  /\ \A id \in 1..MaxAttempts :
       (KeepsHistory(variant) /\ Issued(id)) ~>
          \/ InLedger(id)
          \/ variant = "auth" /\ SettledAt(id) # 0 /\ ~outcomes[SettledAt(id)].ok
  /\ AnswersOnce

----------------------------------------------------------------------------
(* C19 *)

\* the handler of the attempt whose delivery call the step settles
SettledHandler == CHOOSE h \in pending : h.id = JustSettled.id

\* C19: in index.js the step in which the delivery of a photo (a video) of
\* s bytes resolves adds 1 to totalUploaded, 1 to totalPhotos (totalVideos)
\* and s to totalBytes, leaves totalFailed and the other per-type counter as
\* they were, puts the record {name, type, size s, status ok} at the head of
\* the history in front of the records that stay, and answers 200 with
\* success: true.
C19_SuccessDeltas ==
  [][(variant = "stats" /\ Settles /\ JustSettled.ok
        /\ SettledHandler.type \in {"photo", "video"}) =>
       LET h == SettledHandler
           photo == IF h.type = "photo" THEN 1 ELSE 0
       IN  /\ stats' = [totalUploaded |-> stats.totalUploaded + 1,
                        totalPhotos |-> stats.totalPhotos + photo,
                        totalVideos |-> stats.totalVideos + (1 - photo),
                        totalFailed |-> stats.totalFailed,
                        totalBytes |-> stats.totalBytes + h.size]
           /\ Len(recentFiles') >= 1
           /\ [k \in {"name", "type", "size", "status"} |-> recentFiles'[1][k]]
                = [name |-> h.id, type |-> h.type, size |-> h.size, status |-> "ok"]
           /\ Tail(recentFiles') = Room(recentFiles)
           /\ response'.status = 200 /\ response'.success
           /\ response'.h.id = h.id]_vars

\* a video of two bytes was delivered after a photo of one byte
C19_Witness ==
  /\ variant = "stats"
  /\ response.status = 200 /\ response.success
  /\ response.h.type = "video" /\ response.h.size = 2
  /\ stats = [totalUploaded |-> 2, totalPhotos |-> 1, totalVideos |-> 1,
              totalFailed |-> 0, totalBytes |-> 3]
  /\ recentFiles[1].name = response.h.id

----------------------------------------------------------------------------
(* C20 *)

\* the record is in the list the `photos` (`videos`) button shows
InView(r, type) == r \in Range(filter(recentFiles, type))

\* C20 as stated: every record of the history has a type in {photo, video}
\* and, in index.js, a status in {ok, fail}, whatever `type` fields the
\* requests carried; so every ok record is in exactly one of the photo view
\* and the video view.
C20_AsStated ==
  KeepsHistory(variant) =>
    \A r \in Range(recentFiles) :
      /\ r.type \in {"photo", "video"}
      /\ variant = "stats" =>
           /\ r.status \in {"ok", "fail"}
           /\ r.status = "ok" => (InView(r, "photo") /\ ~InView(r, "video"))
                                   \/ (InView(r, "video") /\ ~InView(r, "photo"))

\* what the programs do: the status is always ok or fail and no record is
\* in both views; the auth variant records only photo and video, index.js
\* records the `type` field as it came
RecordTypesAsCoded ==
  KeepsHistory(variant) =>
    \A r \in Range(recentFiles) :
      /\ variant = "auth" => r.type \in {"photo", "video"}
      /\ variant = "stats" =>
           /\ r.type \in Types \ {Undefined}
           /\ r.status \in {"ok", "fail"}
           /\ ~(InView(r, "photo") /\ InView(r, "video"))

----------------------------------------------------------------------------
(* C21 *)

\* a required configuration value is absent from the environment
Absent(name) == process.env[name] = Undefined

\* nothing has been handled: no request and no update was received, nothing
\* was answered or sent, no handler is suspended, and the ledger is as
\* constructed
NothingHandled ==
  /\ request = <<>> /\ response = NoResponse
  /\ update = <<>> /\ sent = NoMessage /\ keyboard = {}
  /\ pending = {} /\ attempts = 0 /\ outcomes = <<>>
  /\ stats = ZeroStats /\ uploadCount = 0 /\ lastUpload = Null
  /\ recentFiles = <<>>

\* C21: in a run where TELEGRAM_BOT_TOKEN or CHAT_ID is absent, the process
\* has exited with a non-zero code and no HTTP request and no bot command is
\* ever handled.
C21_MissingConfigExits ==
  (Absent("TELEGRAM_BOT_TOKEN") \/ Absent("CHAT_ID")) =>
    /\ process.exit # <<>> /\ process.exit[1] # 0
    /\ NothingHandled

\* the token is set and CHAT_ID is not: the process has exited with code 1
C21_Witness ==
  /\ process.env.TELEGRAM_BOT_TOKEN = BotToken
  /\ Absent("CHAT_ID")
  /\ process.exit = <<1>>

----------------------------------------------------------------------------
(* C22 *)

Counters == {"totalUploaded", "totalPhotos", "totalVideos", "totalFailed", "totalBytes"}

\* the size of the file of a settled attempt: one byte for the uploads that
\* came before the window (EarlierStats), and for an attempt of this run the
\* size in its record, which is still in the history since it is among the
\* newest MaxAttempts records
SizeOf(id) ==
  IF id <= 0 THEN 1
  ELSE LET i == CHOOSE i \in DOMAIN recentFiles : recentFiles[i].name = id
       IN  recentFiles[i].size

RECURSIVE SumOfSizes(_)
SumOfSizes(ids) ==
  IF ids = {} THEN 0
  ELSE LET id == CHOOSE id \in ids : TRUE
       IN  SizeOf(id) + SumOfSizes(ids \ {id})

\* the sizes of the attempts counted in totalUploaded, added up
BytesDelivered == SumOfSizes({outcomes[i].id : i \in Resolved})

CountersAgree ==
  variant = "stats" =>
    /\ stats.totalUploaded = stats.totalPhotos + stats.totalVideos
    /\ \A c \in Counters : stats[c] >= 0
    /\ stats.totalBytes = BytesDelivered

CountersGrow == \A c \in Counters : stats'[c] >= stats[c]

\* C22: in every reachable state of the stats-keeping server totalUploaded =
\* totalPhotos + totalVideos, the five counters are non-negative and
\* totalBytes is the sum of the sizes of the attempts counted in
\* totalUploaded; and no step decreases a counter.
C22_CountersConsistent == []CountersAgree /\ [][CountersGrow]_vars

\* 49 earlier photos, then an `audio` file of two bytes delivered (counted
\* as a photo) and a delivery rejected
C22_Witness ==
  /\ variant = "stats"
  /\ stats = [totalUploaded |-> 50, totalPhotos |-> 50, totalVideos |-> 0,
              totalFailed |-> 1, totalBytes |-> 51]
  /\ \E i \in DOMAIN recentFiles :
       recentFiles[i].type = "audio" /\ recentFiles[i].status = "ok"

----------------------------------------------------------------------------
(* C23 *)

\* C23: in the auth variant recentFiles.length = min(uploadCount, 20),
\* lastUpload is null exactly when uploadCount = 0, and when uploadCount > 0
\* lastUpload is the time of the newest record (the last one pushed); also
\* after the "File Backed Up" message was rejected.
C23_TrackingStateAgrees ==
  variant = "auth" =>
    /\ Len(recentFiles) = Min(uploadCount, MAX_RECENT_AUTH)
    /\ (lastUpload = Null) <=> (uploadCount = 0)
    /\ uploadCount > 0 => lastUpload = recentFiles[Len(recentFiles)].time

\* two uploads in flight on top of 19 earlier ones: the second to arrive was
\* delivered first, then the first, whose "File Backed Up" message was
\* rejected and which was answered 500; the history has lost its oldest record
C23_Witness ==
  /\ variant = "auth"
  /\ response.status = 500 /\ response.h.err = NotifyError
  /\ response.h.id = 1
  /\ uploadCount = MAX_RECENT_AUTH + 1
  /\ Len(recentFiles) = MAX_RECENT_AUTH
  /\ HistoryNames[MAX_RECENT_AUTH] = 1 /\ HistoryNames[MAX_RECENT_AUTH - 1] = 2
  /\ lastUpload = response.h.now

----------------------------------------------------------------------------
(* C24 *)

\* where the record of attempt `id` stands in the history
PositionOf(id) == CHOOSE i \in DOMAIN recentFiles : recentFiles[i].name = id

\* the record of `a` is positioned as older than that of `b`: nearer to the
\* end that is dropped first, the tail in index.js (unshift/pop) and the
\* head in the auth variant (push/shift)
OlderThan(a, b) ==
  IF variant = "auth" THEN PositionOf(a) < PositionOf(b)
  ELSE PositionOf(a) > PositionOf(b)

\* the settled deliveries of the requests of this run, as positions in the
\* order in which they settled
ThisRun == {i \in DOMAIN outcomes : outcomes[i].id >= 1}

Has(id) == \E i \in DOMAIN recentFiles : recentFiles[i].name = id

\* <<A, B>>: request A arrived before request B (attempts are numbered as
\* they arrive), the delivery of B settled first, and both have a record
OvertakenPairs ==
  {<<outcomes[p[2]].id, outcomes[p[1]].id>> :
     p \in {p \in ThisRun \X ThisRun :
              /\ p[1] < p[2]
              /\ outcomes[p[2]].id < outcomes[p[1]].id
              /\ Has(outcomes[p[1]].id) /\ Has(outcomes[p[2]].id)}}

OrderedByOutcome ==
  KeepsHistory(variant) => \A p \in OvertakenPairs : OlderThan(p[2], p[1])

\* the names of the records of `rf` that are in `other` too, in their order
Staying(rf, other) ==
  LET names == Names(other)
  IN  SelectSeq([i \in DOMAIN rf |-> rf[i].name], LAMBDA n : n \in names)

OrderKept ==
  recentFiles' # recentFiles =>
    Staying(recentFiles', recentFiles) = Staying(recentFiles, recentFiles')

\* C24: when A arrives before B and B's delivery reaches its outcome first,
\* B's record is positioned as older than A's; and no step changes the
\* relative order of two records that are in the history before and after it.
C24_OutcomeOrder == []OrderedByOutcome /\ [][OrderKept]_vars

\* index.js with a full history: the second request to arrive settled first
\* (rejected), then the first (delivered), whose record is now at the head
C24_Witness ==
  /\ variant = "stats"
  /\ Len(recentFiles) = MAX_RECENT
  /\ Settled = MAX_RECENT + 1
  /\ outcomes[Settled].id = 1 /\ outcomes[Settled].ok
  /\ outcomes[Settled - 1].id = 2 /\ ~outcomes[Settled - 1].ok
  /\ recentFiles[1].name = 1 /\ recentFiles[2].name = 2

====
